---- MODULE Spec2Model ----
(***************************************************************************)
(* A model of the light-transport helpers of rs_pbrt:                      *)
(*   - core/light.rs    is_delta_light, VisibilityTester::{unoccluded,tr}  *)
(*   - core/sampler.rs  the Sampler trait (start_pixel/start_next_sample)  *)
(*   - shapes/curve.rs  Curve::sample, Curve::sample_with_ref_point        *)
(* The scene is a finite one-dimensional arrangement of primitives along   *)
(* the line through p0 and p1; f32 values are IEEE-754 binary32 values and *)
(* their arithmetic is correctly rounded.                                  *)
(***************************************************************************)
EXTENDS Integers, Sequences, FiniteSets, TLC

VARIABLES
    \* ---- VisibilityTester and its collaborators (core/light.rs)
    scene,        \* the Scene handed to unoccluded / tr
    p0, p1,       \* the tester's two InteractionCommon records
    ray,          \* tr's local `ray`
    pc,           \* "idle": no call running; "loop": inside tr's loop
    trResult,     \* Spectrum returned by the last tr (0 or 1), -1 before
    unoccResult,  \* bool returned by the last unoccluded
    calls,        \* number of resolutions (calls of unoccluded or tr) begun
    trReturns,    \* sequence of the values tr has returned so far
    unoccReturns, \* sequence of the values unoccluded has returned so far
    lastIsect,    \* outcome of the last scene.intersect of the running tr
    passed,       \* rays re-spawned by the running (or last) tr
    iters,        \* loop iterations of the running (or last) tr
    \* ---- Sampler (core/sampler.rs)
    samples_per_pixel, current_sample_number, current_pixel,
    nextCalls, trueCount, lastRet,
    \* ---- is_delta_light (core/light.rs)
    flags, deltaOut,
    \* ---- Curve::sample_with_ref_point (shapes/curve.rs)
    irefP, pdfIn, cpc, pdfOut, intrOut, computedPdf, didNormalize, didDivide,
    \* ---- Curve::create (shapes/curve.rs)
    split_depth,         \* the argument split_depth
    reverse_orientation, \* the argument reverse_orientation
    curve_type,          \* the argument curve_type
    norm,                \* the argument norm: "None" or "Some"
    commons,             \* the CurveCommon values allocated by Arc::new
    common,              \* create's local `common`: an index of commons, 0 before
    n_segments,          \* create's local `n_segments`
    segments,            \* create's local `segments`
    crpc,                \* "ready", "loop" (the for loop), "done" (returned),
                         \* "panicked", "aborted"
    \* ---- UberMaterial::bsdf (materials/uber.rs)
    uber,                \* the material: what its textures evaluate to at si
    bsdfOut,             \* the Bsdf returned by the last call
    ubpc                 \* "ready" or "returned"

visVars == <<scene, p0, p1, ray, pc, trResult, unoccResult, calls,
             trReturns, unoccReturns, lastIsect, passed, iters>>
samplerVars == <<samples_per_pixel, current_sample_number, current_pixel,
                 nextCalls, trueCount, lastRet>>
lightVars == <<flags, deltaOut>>
curveVars == <<irefP, pdfIn, cpc, pdfOut, intrOut, computedPdf,
               didNormalize, didDivide>>
createVars == <<split_depth, reverse_orientation, curve_type, norm, commons,
                common, n_segments, segments, crpc>>
uberVars == <<uber, bsdfOut, ubpc>>
vars == <<visVars, samplerVars, lightVars, curveVars, createVars, uberVars>>

(***************************************************************************)
(* Bounds of the model.                                                    *)
(***************************************************************************)
\* positions on the line through p0 and p1 are 0..MaxPos
MaxPos == 3
\* how many times a tester is resolved
MaxResolves == 2
\* samples per pixel range over 1..MaxSpp
MaxSpp == 3
\* pixel coordinates are 0..MaxPixel
MaxPixel == 2
\* loop iterations of tr are counted up to MaxIters
MaxIters == 6
\* the shallow split depths are 0..MaxSplitDepth
MaxSplitDepth == 3
\* an allocation below 2^SureAllocBits bytes is taken to succeed
SureAllocBits == 28
\* Spectrum channels and eta are multiples of 1/Unit: Unit stands for 1.0
Unit == 2
\* channels of the opacity texture range over -1/Unit..MaxOpacity/Unit
MaxOpacity == 3
\* finite values of *pdf range over the integers -MaxFinite..MaxFinite
MaxFinite == 4
\* integer coordinates of the reference point range over -MaxCoord..MaxCoord
MaxCoord == 1
\* a coordinate 2^HugeExp, whose square is beyond the f32 range
HugeExp == 64
\* a coordinate 2^-TinyExp, whose square is below the least subnormal f32
TinyExp == 80

Abs(x) == IF x < 0 THEN -x ELSE x
Sign(x) == IF x < 0 THEN -1 ELSE IF x > 0 THEN 1 ELSE 0
Min(S) == CHOOSE x \in S : \A y \in S : x <= y

(***************************************************************************)
(* core/light.rs: VisibilityTester                                         *)
(***************************************************************************)
Pos == 0..MaxPos

\* What sits at a position of the line:
\*   "empty"    no primitive
\*   "opaque"   a primitive whose get_material() is Some
\*   "clear"    a primitive whose get_material() is None
\*   "nohandle" a surface whose SurfaceInteraction has primitive == None
Kinds == {"empty", "opaque", "clear", "nohandle"}

Scenes == [Pos -> Kinds]

\* InteractionCommon { p, time, p_error, wo, n }
InteractionCommon(p, time, p_error, wo, n) ==
    [p |-> p, time |-> time, p_error |-> p_error, wo |-> wo, n |-> n]

\* InteractionCommon::default() placed at position p
DefaultAt(p) == InteractionCommon(p, 0, 0, 0, 0)

\* InteractionCommon::spawn_ray_to: a ray from self.p toward it.p whose
\* parameter range stops short of the target (t_max = 1 - shadow epsilon):
\* it covers the positions strictly between the two points.
spawn_ray_to(self, it) ==
    LET d == it.p - self.p
    IN [o |-> self.p, d |-> d,
        t_max |-> IF d = 0 THEN 0 ELSE Abs(d) - 1,
        time |-> self.time]

\* The position the ray reaches after k steps.
RayAt(r, k) == r.o + Sign(r.d) * k

\* Steps at which the ray meets a surface, within its t_max.
HitSteps(sc, r) == {k \in 1..r.t_max : sc[RayAt(r, k)] # "empty"}

\* Scene::intersect_p
intersect_p(sc, r) == HitSteps(sc, r) # {}

\* Scene::intersect: the nearest surface within t_max, as the
\* Option<SurfaceInteraction>; hit = FALSE is None.
intersect(sc, r) ==
    IF HitSteps(sc, r) = {}
    THEN [hit |-> FALSE, t |-> 0, p |-> 0, time |-> 0, p_error |-> 0,
          wo |-> 0, n |-> 0, primitive |-> "None"]
    ELSE LET k == Min(HitSteps(sc, r))
             kind == sc[RayAt(r, k)]
         IN [hit |-> TRUE, t |-> k, p |-> RayAt(r, k), time |-> r.time,
             p_error |-> 1, wo |-> -Sign(r.d), n |-> -Sign(r.d),
             primitive |-> IF kind = "nohandle" THEN "None"
                           ELSE IF kind = "opaque" THEN "SomeWithMaterial"
                           ELSE "SomeNoMaterial"]

\* Scene::intersect takes &mut ray (light.rs line 84).  What it writes to
\* the ray is decided by the scene's primitives: on a hit the ray is either
\* left as it was or shortened to the hit (t_max = the hit's parameter).
\* Both outcomes are possible values of the ray after the call.
RaysAfterIntersect(sc, r) ==
    IF intersect(sc, r).hit
    THEN {r, [r EXCEPT !.t_max = intersect(sc, r).t]}
    ELSE {r}

NoIsect ==
    [hit |-> FALSE, t |-> 0, p |-> 0, time |-> 0, p_error |-> 0,
     wo |-> 0, n |-> 0, primitive |-> "None"]

NoRay == [o |-> 0, d |-> 0, t_max |-> 0, time |-> 0]

\* The InteractionCommon `it` that tr builds from a hit (light.rs 92-98).
ItOfIsect(isect) ==
    InteractionCommon(isect.p, isect.time, isect.p_error, isect.wo, isect.n)

InitVis ==
    /\ scene \in Scenes
    /\ p0 \in {DefaultAt(p) : p \in Pos}
    /\ p1 \in {DefaultAt(p) : p \in Pos}
    /\ ray = NoRay
    /\ pc = "idle"
    /\ trResult = -1
    /\ unoccResult = FALSE
    /\ calls = 0
    /\ trReturns = <<>>
    /\ unoccReturns = <<>>
    /\ lastIsect = NoIsect
    /\ passed = 0
    /\ iters = 0

\* unoccluded without the negation of line 78
unoccluded_NotNegated(self0, self1, sc) ==
    intersect_p(sc, spawn_ray_to(self0, self1))

\* The value of VisibilityTester::unoccluded (line 78)
unoccluded(self0, self1, sc) ==
    ~intersect_p(sc, spawn_ray_to(self0, self1))

\* VisibilityTester::unoccluded
call_unoccluded ==
    /\ pc = "idle"
    /\ calls < MaxResolves
    /\ calls' = calls + 1
    /\ unoccResult' = unoccluded(p0, p1, scene)
    /\ unoccReturns' = Append(unoccReturns, unoccResult')
    /\ UNCHANGED <<scene, p0, p1, ray, pc, trResult, trReturns, lastIsect,
                   passed, iters>>
    /\ UNCHANGED <<samplerVars, lightVars, curveVars, createVars,
                   uberVars>>

\* VisibilityTester::tr, lines 81-82: the first ray and tr = Spectrum(1.0)
tr_begin ==
    /\ pc = "idle"
    /\ calls < MaxResolves
    /\ calls' = calls + 1
    /\ ray' = spawn_ray_to(p0, p1)
    /\ pc' = "loop"
    /\ lastIsect' = NoIsect
    /\ passed' = 0
    /\ iters' = 0
    /\ UNCHANGED <<scene, p0, p1, trResult, unoccResult, trReturns,
                   unoccReturns>>
    /\ UNCHANGED <<samplerVars, lightVars, curveVars, createVars,
                   uberVars>>

\* tr returns the Spectrum v
tr_return(v) ==
    /\ pc' = "idle"
    /\ trResult' = v
    /\ trReturns' = Append(trReturns, v)

\* The Spectrum tr starts from and returns after the loop (line 82).
tr == 1

\* Spectrum::default(), returned at line 88.
spectrum_default == 0

\* tr with the material test of line 87 dropped: every primitive is passed
tr_on_hit_IgnoresMaterial(isect) ==
    IF isect.primitive # "None" THEN "respawn" ELSE "nothing"

\* tr with the material test of line 87 inverted
tr_on_hit_MaterialTestInverted(isect) ==
    IF isect.primitive # "None"
    THEN IF isect.primitive = "SomeWithMaterial"
         THEN "respawn"
         ELSE "return_zero"
    ELSE "nothing"

\* What tr does with a hit (lines 86-101):
\*   "return_zero"  the primitive has a material (line 88)
\*   "respawn"      the primitive has none: a new ray from the hit (line 99)
\*   "nothing"      isect.primitive is None: no branch is taken
tr_on_hit(isect) ==
    IF isect.primitive # "None"
    THEN IF isect.primitive = "SomeWithMaterial"
         THEN "return_zero"
         ELSE "respawn"
    ELSE "nothing"

\* tr advancing the tester's own p0 to the hit instead of a local ray
tr_iterate_MovesP0 ==
    /\ pc = "loop"
    /\ LET isect == intersect(scene, ray)
       IN /\ lastIsect' = isect
          /\ iters' = IF iters < MaxIters THEN iters + 1 ELSE iters
          /\ IF isect.hit
             THEN CASE tr_on_hit(isect) = "return_zero" ->
                         /\ tr_return(spectrum_default)
                         /\ ray' \in RaysAfterIntersect(scene, ray)
                         /\ UNCHANGED <<passed, p0>>
                    [] tr_on_hit(isect) = "respawn" ->
                         /\ p0' = ItOfIsect(isect)
                         /\ ray' = spawn_ray_to(p0', p1)
                         /\ passed' = passed + 1
                         /\ UNCHANGED <<pc, trResult, trReturns>>
                    [] tr_on_hit(isect) = "nothing" ->
                         /\ ray' \in RaysAfterIntersect(scene, ray)
                         /\ UNCHANGED <<pc, trResult, trReturns, passed, p0>>
             ELSE /\ tr_return(tr)
                  /\ UNCHANGED <<ray, passed, p0>>
    /\ UNCHANGED <<scene, p1, unoccResult, calls, unoccReturns>>
    /\ UNCHANGED <<samplerVars, lightVars, curveVars, createVars,
                   uberVars>>

\* VisibilityTester::tr, one iteration of the loop (lines 83-105)
tr_iterate ==
    /\ pc = "loop"
    /\ LET isect == intersect(scene, ray)
       IN /\ lastIsect' = isect
          /\ iters' = IF iters < MaxIters THEN iters + 1 ELSE iters
          /\ IF isect.hit
             THEN CASE tr_on_hit(isect) = "return_zero" ->
                         /\ tr_return(spectrum_default)
                         /\ ray' \in RaysAfterIntersect(scene, ray)
                         /\ UNCHANGED passed
                    [] tr_on_hit(isect) = "respawn" ->
                         /\ ray' = spawn_ray_to(ItOfIsect(isect), p1)
                         /\ passed' = passed + 1
                         /\ UNCHANGED <<pc, trResult, trReturns>>
                    [] tr_on_hit(isect) = "nothing" ->
                         /\ ray' \in RaysAfterIntersect(scene, ray)
                         /\ UNCHANGED <<pc, trResult, trReturns, passed>>
             ELSE \* break; tr
                  /\ tr_return(tr)
                  /\ UNCHANGED <<ray, passed>>
    /\ UNCHANGED <<scene, p0, p1, unoccResult, calls, unoccReturns>>
    /\ UNCHANGED <<samplerVars, lightVars, curveVars, createVars,
                   uberVars>>

(***************************************************************************)
(* core/sampler.rs: the Sampler trait.  The trait has no body in this      *)
(* file; start_pixel and start_next_sample follow its documented contract. *)
(***************************************************************************)
InitSampler ==
    /\ samples_per_pixel \in 1..MaxSpp
    /\ current_sample_number = 0
    /\ current_pixel = <<0, 0>>
    /\ nextCalls = 0
    /\ trueCount = 0
    /\ lastRet = TRUE

\* Sampler::start_pixel: resets the cursors for a new pixel
start_pixel(p) ==
    /\ current_pixel' = p
    /\ current_sample_number' = 0
    /\ nextCalls' = 0
    /\ trueCount' = 0
    /\ lastRet' = TRUE
    /\ UNCHANGED samples_per_pixel
    /\ UNCHANGED <<visVars, lightVars, curveVars, createVars,
                   uberVars>>

\* start_next_sample giving up one sample early
start_next_sample_ret_OneShort(next, spp) == next < spp

\* The bool start_next_sample returns when it has moved to index `next`.
start_next_sample_ret(next, spp) == next <= spp

\* Sampler::start_next_sample: advances the sample index; false once the
\* samples-per-pixel count is exhausted.  The caller then moves on to the
\* next pixel, so no call follows one that returned false.
start_next_sample ==
    /\ lastRet
    /\ current_sample_number' = current_sample_number + 1
    /\ lastRet' = start_next_sample_ret(current_sample_number', samples_per_pixel)
    /\ nextCalls' = nextCalls + 1
    /\ trueCount' = IF lastRet' THEN trueCount + 1 ELSE trueCount
    /\ UNCHANGED <<samples_per_pixel, current_pixel>>
    /\ UNCHANGED <<visVars, lightVars, curveVars, createVars,
                   uberVars>>

(***************************************************************************)
(* core/light.rs: LightFlags and is_delta_light                            *)
(***************************************************************************)
DeltaPosition == 1
DeltaDirection == 2
Area == 4
Infinite == 8
\* the largest u8
U8Max == 255

\* a & b on non-negative integers
RECURSIVE BitAnd(_, _)
BitAnd(a, b) ==
    IF a = 0 \/ b = 0
    THEN 0
    ELSE 2 * BitAnd(a \div 2, b \div 2) + (IF a % 2 = 1 /\ b % 2 = 1 THEN 1 ELSE 0)

\* is_delta_light testing the DeltaPosition bit only
is_delta_light_PositionOnly(f) ==
    LET pos == BitAnd(f, DeltaPosition) > 0
    IN pos

\* is_delta_light (lines 56-66)
is_delta_light(f) ==
    LET pos == BitAnd(f, DeltaPosition) > 0
        dir == BitAnd(f, DeltaDirection) > 0
    IN pos \/ dir

InitLight ==
    /\ flags \in 0..U8Max
    /\ deltaOut = "none"

\* a call of is_delta_light(flags)
call_is_delta_light ==
    /\ deltaOut = "none"
    /\ deltaOut' = IF is_delta_light(flags) THEN "true" ELSE "false"
    /\ UNCHANGED flags
    /\ UNCHANGED <<visVars, samplerVars, curveVars, createVars,
                   uberVars>>

(***************************************************************************)
(* f32 arithmetic (core/pbrt.rs: type Float = f32).  A value is NaN, an    *)
(* infinity with a sign bit, or a finite value (-1)^s * m * 2^e with a     *)
(* sign bit s, a significand m below 2^MantBits (odd, or 0 with e = 0) and *)
(* an exponent e >= MinExp.  Every operation gives the IEEE-754 binary32   *)
(* result: the exact result rounded to nearest, ties to even, with gradual *)
(* underflow, overflow to infinity and signed zeros.  Intermediate         *)
(* integers stay below 2^30.                                               *)
(***************************************************************************)
\* significand bits of an f32 (f32::MANTISSA_DIGITS)
MantBits == 24
\* exponent of the least subnormal f32, 2^-149
MinExp == -149
\* finite f32 values are below 2^128 (f32::MAX_EXP)
MaxExp == 128
\* bits of one limb of a double-width significand
LimbBits == MantBits
\* bits a significand is widened to before a sum or a quotient is rounded:
\* the significand, a guard and a round bit, and two sticky bits
WideBits == MantBits + 4

Max2(x, y) == IF x >= y THEN x ELSE y
Min2(x, y) == IF x <= y THEN x ELSE y
Pow2(n) == 2 ^ n

\* number of bits of the natural number m
RECURSIVE BitLen(_)
BitLen(m) == IF m = 0 THEN 0 ELSE 1 + BitLen(m \div 2)

NaN == [k |-> "nan", s |-> 0, m |-> 0, e |-> 0]
Inf(s) == [k |-> "inf", s |-> s, m |-> 0, e |-> 0]
Zero(s) == [k |-> "fin", s |-> s, m |-> 0, e |-> 0]

\* the finite value (-1)^s * m * 2^e, m > 0, with its significand made odd
RECURSIVE Finite(_, _, _)
Finite(s, m, e) ==
    IF m % 2 = 0 THEN Finite(s, m \div 2, e + 1)
    ELSE [k |-> "fin", s |-> s, m |-> m, e |-> e]

\* a value that needs no rounding: overflow gives the infinity of its sign
Pack(s, m, e) ==
    IF m = 0 THEN Zero(s)
    ELSE IF BitLen(m) + e > MaxExp THEN Inf(s)
    ELSE Finite(s, m, e)

\* the integer n as an f32 (|n| < 2^MantBits)
Fin(n) == Pack(IF n < 0 THEN 1 ELSE 0, Abs(n), 0)

\* m shifted right by d bits, a lost 1 bit kept in the lowest bit (sticky)
Jam(m, d) ==
    IF m % Pow2(d) # 0 /\ (m \div Pow2(d)) % 2 = 0
    THEN (m \div Pow2(d)) + 1
    ELSE m \div Pow2(d)

\* the quotient q of a right shift, rounded to nearest by the bits rem
\* shifted out, ties (rem = half) to even
RoundUp(s, q, rem, half, e) ==
    Pack(s, IF rem > half \/ (rem = half /\ q % 2 = 1) THEN q + 1 ELSE q, e)

\* rounding of (-1)^s * m * 2^e by a right shift of sh bits (none if
\* sh <= 0, and to zero if the value is below half the least subnormal)
RoundShift(s, m, e, sh) ==
    IF sh <= 0 THEN Pack(s, m, e)
    ELSE IF sh > BitLen(m) THEN Zero(s)
    ELSE RoundUp(s, m \div Pow2(sh), m % Pow2(sh), Pow2(sh - 1), e + sh)

\* rounding of (-1)^s * m * 2^e to the nearest f32, ties to even.  The
\* significand keeps MantBits bits, fewer for a subnormal result.
Round(s, m, e) ==
    RoundShift(s, m, e, Max2(BitLen(m) - MantBits, MinExp - e))

\* f32::is_infinite
is_infinite(a) == a.k = "inf"
\* f32::is_nan
is_nan(a) == a.k = "nan"
\* a == 0.0 (true of +0.0 and of -0.0)
IsZero(a) == a.k = "fin" /\ a.m = 0

\* -a
FNeg(a) == IF a.k = "nan" THEN NaN ELSE [a EXCEPT !.s = 1 - a.s]

\* f32::abs
FAbs(a) == IF a.k = "nan" THEN NaN ELSE [a EXCEPT !.s = 0]

\* sign bit of a product or a quotient
SignXor(a, b) == IF a.s = b.s THEN 0 ELSE 1

\* the nonzero finite value a with its significand shifted left by up bits
WidenBy(a, up) == [s |-> a.s, m |-> a.m * Pow2(up), e |-> a.e - up]

\* a nonzero finite value with its significand widened to WideBits bits
Widen(a) == WidenBy(a, WideBits - BitLen(a.m))

\* big + small, the significand sm of small aligned to big
AddSig(big, sm, s) ==
    IF big.s = s THEN Round(big.s, big.m + sm, big.e)
    ELSE IF big.m = sm THEN Zero(0)
    ELSE Round(big.s, big.m - sm, big.e)

\* big + small for |big| >= |small|: small is shifted right to the exponent
\* of big, the bits shifted out are sticky
AddAligned(big, small) ==
    AddSig(big,
           IF big.e - small.e >= WideBits THEN 1
           ELSE Jam(small.m, big.e - small.e),
           small.s)

\* sum of two nonzero finite values
AddFinite(a, b) ==
    IF Widen(a).e > Widen(b).e
           \/ (Widen(a).e = Widen(b).e /\ Widen(a).m >= Widen(b).m)
    THEN AddAligned(Widen(a), Widen(b))
    ELSE AddAligned(Widen(b), Widen(a))

\* a + b
FAdd(a, b) ==
    IF a.k = "nan" \/ b.k = "nan" THEN NaN
    ELSE IF a.k = "inf" /\ b.k = "inf"
         THEN IF a.s = b.s THEN a ELSE NaN
    ELSE IF a.k = "inf" THEN a
    ELSE IF b.k = "inf" THEN b
    ELSE IF a.m = 0 /\ b.m = 0 THEN Zero(IF a.s = b.s THEN a.s ELSE 0)
    ELSE IF a.m = 0 THEN b
    ELSE IF b.m = 0 THEN a
    ELSE AddFinite(a, b)

\* a - b
FSub(a, b) == FAdd(a, FNeg(b))

\* half a limb: a significand is two digits below HalfLimb
HalfLimb == Pow2(LimbBits \div 2)

\* the double-width natural high * 2^LimbBits + low as <<high limb, low limb>>
Carry2(high, low) ==
    <<high + (low \div Pow2(LimbBits)), low % Pow2(LimbBits)>>

\* high * 2^LimbBits + mid * HalfLimb + low
Sum2(high, mid, low) ==
    Carry2(high + (mid \div HalfLimb), (mid % HalfLimb) * HalfLimb + low)

\* the product x * y of two significands as <<high limb, low limb>>
Mul2(x, y) ==
    Sum2((x \div HalfLimb) * (y \div HalfLimb),
         (x \div HalfLimb) * (y % HalfLimb) + (x % HalfLimb) * (y \div HalfLimb),
         (x % HalfLimb) * (y % HalfLimb))

\* x <= y for double-width naturals
Leq2(x, y) == x[1] < y[1] \/ (x[1] = y[1] /\ x[2] <= y[2])

\* rounding of the double-width significand p, whose high limb is not 0,
\* scaled by 2^e: the high limb and keep bits of the low limb are kept, the
\* bits below them are sticky
Round2Keep(s, p, e, keep) ==
    Round(s, p[1] * Pow2(keep) + Jam(p[2], LimbBits - keep),
          e + (LimbBits - keep))

\* rounding of the double-width significand p scaled by 2^e
Round2(s, p, e) ==
    IF p[1] = 0 THEN Round(s, p[2], e)
    ELSE Round2Keep(s, p, e, Min2(LimbBits, WideBits - BitLen(p[1])))

\* a * b
FMul(a, b) ==
    IF a.k = "nan" \/ b.k = "nan" THEN NaN
    ELSE IF a.k = "inf" \/ b.k = "inf"
         THEN IF IsZero(a) \/ IsZero(b) THEN NaN ELSE Inf(SignXor(a, b))
    ELSE IF a.m = 0 \/ b.m = 0 THEN Zero(SignXor(a, b))
    ELSE Round2(SignXor(a, b), Mul2(a.m, b.m), a.e + b.e)

\* n quotient bits of r / d by shift and subtract, r < 2 * d, appended to q;
\* a remainder left at the end is the sticky bit
RECURSIVE DivBits(_, _, _, _)
DivBits(r, d, n, q) ==
    IF n = 0 THEN IF r # 0 /\ q % 2 = 0 THEN q + 1 ELSE q
    ELSE IF r >= d THEN DivBits(2 * (r - d), d, n - 1, 2 * q + 1)
    ELSE DivBits(2 * r, d, n - 1, 2 * q)

\* a / b with the significands shifted left by ua and ub bits to MantBits
\* bits each: WideBits quotient bits are rounded
DivWide(a, b, ua, ub) ==
    Round(SignXor(a, b),
          DivBits(a.m * Pow2(ua), b.m * Pow2(ub), WideBits, 0),
          (a.e - ua) - (b.e - ub) - (WideBits - 1))

\* quotient of two nonzero finite values
DivFinite(a, b) ==
    DivWide(a, b, MantBits - BitLen(a.m), MantBits - BitLen(b.m))

\* a / b
FDiv(a, b) ==
    IF a.k = "nan" \/ b.k = "nan" THEN NaN
    ELSE IF a.k = "inf"
         THEN IF b.k = "inf" THEN NaN ELSE Inf(SignXor(a, b))
    ELSE IF b.k = "inf" THEN Zero(SignXor(a, b))
    ELSE IF b.m = 0
         THEN IF a.m = 0 THEN NaN ELSE Inf(SignXor(a, b))
    ELSE IF a.m = 0 THEN Zero(SignXor(a, b))
    ELSE DivFinite(a, b)

\* the largest root with root * root <= t that extends r by bits n..0; t is
\* a double-width natural
RECURSIVE ISqrt(_, _, _)
ISqrt(t, r, n) ==
    IF n < 0 THEN r
    ELSE IF Leq2(Mul2(r + Pow2(n), r + Pow2(n)), t)
         THEN ISqrt(t, r + Pow2(n), n - 1)
         ELSE ISqrt(t, r, n - 1)

\* the double-width natural p plus the natural x
Add2(p, x) == Carry2(p[1], p[2] + x)

\* the root of t, whose integer part is r, rounded to nearest: up when t
\* exceeds (r + 1/2)^2 = r * r + r + 1/4
SqrtRound(t, r, e) ==
    Pack(0, IF Leq2(t, Add2(Mul2(r, r), r)) THEN r ELSE r + 1, e)

\* square root of m * 2^e scaled to t * 2^(e - j), e - j even and t of
\* 2 * MantBits - 1 or 2 * MantBits bits, so that the root has MantBits bits
SqrtScaled(m, e, j) ==
    IF j >= LimbBits
    THEN SqrtRound(<<m * Pow2(j - LimbBits), 0>>,
                   ISqrt(<<m * Pow2(j - LimbBits), 0>>, 0, MantBits - 1),
                   (e - j) \div 2)
    ELSE SqrtRound(<<m \div 2, (m % 2) * Pow2(LimbBits - 1)>>,
                   ISqrt(<<m \div 2, (m % 2) * Pow2(LimbBits - 1)>>, 0,
                         MantBits - 1),
                   (e - j) \div 2)

\* square root of m * 2^e, j0 the least shift that gives 2 * MantBits - 1 bits
SqrtShift(m, e, j0) ==
    SqrtScaled(m, e, IF (e - j0) % 2 = 0 THEN j0 ELSE j0 + 1)

\* square root of a positive finite value
SqrtFinite(a) == SqrtShift(a.m, a.e, 2 * MantBits - 1 - BitLen(a.m))

\* f32::sqrt
FSqrt(a) ==
    IF a.k = "nan" THEN NaN
    ELSE IF a.k = "inf" THEN IF a.s = 0 THEN a ELSE NaN
    ELSE IF a.m = 0 THEN a
    ELSE IF a.s = 1 THEN NaN
    ELSE SqrtFinite(a)

(***************************************************************************)
(* core/geometry.rs: the vector operations sample_with_ref_point uses      *)
(***************************************************************************)
\* Point3f - Point3f, and Vector3f
Vec3(x, y, z) == [x |-> x, y |-> y, z |-> z]
Vec3Zero == Vec3(Fin(0), Fin(0), Fin(0))

Pnt3Sub(a, b) == Vec3(FSub(a.x, b.x), FSub(a.y, b.y), FSub(a.z, b.z))

\* Vector3f::length_squared
length_squared(w) == FAdd(FAdd(FMul(w.x, w.x), FMul(w.y, w.y)), FMul(w.z, w.z))

\* Vector3f / Float
Vec3Div(w, d) == Vec3(FDiv(w.x, d), FDiv(w.y, d), FDiv(w.z, d))

\* vec3_normalize: v / v.length()
vec3_normalize(w) == Vec3Div(w, FSqrt(length_squared(w)))

\* -v
Vec3Neg(w) == Vec3(FNeg(w.x), FNeg(w.y), FNeg(w.z))

\* pnt3_distance_squared
pnt3_distance_squared(a, b) == length_squared(Pnt3Sub(a, b))

\* nrm_abs_dot_vec3
nrm_abs_dot_vec3(n, w) ==
    FAbs(FAdd(FAdd(FMul(n.x, w.x), FMul(n.y, w.y)), FMul(n.z, w.z)))

(***************************************************************************)
(* shapes/curve.rs: Curve::sample and Curve::sample_with_ref_point         *)
(***************************************************************************)
\* the coordinates a reference point is drawn from: small integers, one
\* value whose square overflows and one whose square underflows to 0.0
Coords == {Fin(c) : c \in -MaxCoord..MaxCoord}
              \cup {Pack(0, 1, HugeExp), Pack(0, 1, -TinyExp)}
Points == {Vec3(x, y, z) : x \in Coords, y \in Coords, z \in Coords}

\* the values *pdf is drawn from: NaN, the infinities, the zeros and the
\* integers up to MaxFinite
F32 == {NaN, Inf(0), Inf(1), Zero(1)}
           \cup {Fin(n) : n \in -MaxFinite..MaxFinite}

\* Curve::sample (lines 196-199): prints a message, returns
\* InteractionCommon::default() and leaves *pdf as the caller passed it.
sample(pdf) ==
    [intr |-> [p |-> Vec3Zero, n |-> Vec3Zero], pdf |-> pdf]

\* lines 215-219: an infinite *pdf is replaced by 0.  c is *pdf after the
\* assignment of line 214; the record holds the returned interaction and
\* *pdf, the kind of c, and that lines 211 and 214 ran.
clear_infinite(intr, c) ==
    [intr |-> intr,
     pdf |-> IF is_infinite(c) THEN Fin(0) ELSE c,
     computed |-> c.k,
     normalized |-> TRUE, divided |-> TRUE]

\* lines 211-217: wi is normalised and *pdf converted from area to solid
\* angle measure; s is the result of Curve::sample
to_solid_angle(iref_p, s, wi) ==
    clear_infinite(s.intr,
        FMul(s.pdf,
             FDiv(pnt3_distance_squared(iref_p, s.intr.p),
                  nrm_abs_dot_vec3(s.intr.n, Vec3Neg(vec3_normalize(wi))))))

\* sample_with_ref_point without the zero-length guard of line 208
sample_with_ref_point_NoGuard(iref_p, pdf) ==
    to_solid_angle(iref_p, sample(pdf), Pnt3Sub(sample(pdf).intr.p, iref_p))

\* Curve::sample_with_ref_point (lines 200-220).  The result records the
\* returned interaction and *pdf, the kind of value *pdf has right after
\* line 214 ("none" when line 214 is not reached), and which of lines 211
\* and 214 ran.
sample_with_ref_point(iref_p, pdf) ==
    IF IsZero(length_squared(Pnt3Sub(sample(pdf).intr.p, iref_p)))
    THEN [intr |-> sample(pdf).intr, pdf |-> Fin(0), computed |-> "none",
          normalized |-> FALSE, divided |-> FALSE]
    ELSE to_solid_angle(iref_p, sample(pdf),
                        Pnt3Sub(sample(pdf).intr.p, iref_p))

InitCurve ==
    /\ irefP \in Points
    /\ pdfIn \in F32
    /\ cpc = "ready"
    /\ pdfOut = Fin(0)
    /\ intrOut = [p |-> Vec3Zero, n |-> Vec3Zero]
    /\ computedPdf = "none"
    /\ didNormalize = FALSE
    /\ didDivide = FALSE

\* the caller's view of a finished call: the interaction returned and the
\* value left in *pdf, with the record of the lines that ran
returned_from(r) ==
    /\ pdfOut' = r.pdf
    /\ intrOut' = r.intr
    /\ computedPdf' = r.computed
    /\ didNormalize' = r.normalized
    /\ didDivide' = r.divided

\* a call of sample_with_ref_point(iref, u, &mut pdf) with *pdf = pdfIn
call_sample_with_ref_point ==
    /\ cpc = "ready"
    /\ returned_from(sample_with_ref_point(irefP, pdfIn))
    /\ cpc' = "returned"
    /\ UNCHANGED <<irefP, pdfIn>>
    /\ UNCHANGED <<visVars, samplerVars, lightVars, createVars,
                   uberVars>>

(***************************************************************************)
(* shapes/curve.rs: CurveCommon::new, Curve::new and Curve::create         *)
(***************************************************************************)
CurveTypes == {"Flat", "Cylinder", "Ribbon"}

\* 1_usize << k
RECURSIVE shl1(_)
shl1(k) == IF k = 0 THEN 1 ELSE 2 * shl1(k - 1)

\* CurveCommon::new (lines 40-71); the normals and the angle between them
\* are kept as the case of `norm` they come from.
CurveCommon_new(ct, nrm) ==
    [curve_type |-> ct,
     n |-> IF nrm = "Some" THEN "normalized" ELSE "default",
     normal_angle |-> IF nrm = "Some" THEN "acos" ELSE "zero"]

\* Curve::new (lines 88-108)
Curve_new(o2w, w2o, ro, cm, umin, umax) ==
    [common |-> cm, u_min |-> umin, u_max |-> umax,
     object_to_world |-> o2w, world_to_object |-> w2o,
     reverse_orientation |-> ro,
     transform_swaps_handedness |-> FALSE,
     material |-> "None"]

\* let n_segments: usize = 1_usize << split_depth (line 121)
n_segments_of(depth) == shl1(depth)

\* size_of::<Arc<Shape + Send + Sync>>() is 2^PtrBytesLog2 bytes: a data
\* pointer and a vtable pointer of a 64-bit target
PtrBytesLog2 == 4
\* isize::MAX is 2^IsizeBits - 1
IsizeBits == 63
\* usize::BITS: a shift of 1_usize by 0..UsizeBits-1 does not overflow
UsizeBits == 64

\* Vec::with_capacity(n_segments) (line 122) panics with "capacity
\* overflow" when n_segments * size_of::<Arc<..>>() exceeds isize::MAX
capacity_overflow(depth) == depth + PtrBytesLog2 >= IsizeBits

\* Whether the allocator can serve a request depends on the machine; a
\* vector of 2^SureAllocBits bytes or more may be refused, and so may any
\* Arc::new of a call that needs such a vector.
alloc_may_fail(depth) == depth + PtrBytesLog2 >= SureAllocBits

\* i as Float for a usize i: the nearest f32, ties to even
usize_as_Float(i) == Round(0, i, 0)

\* u_min of segment i (line 124)
u_min_of(i, n) == FDiv(usize_as_Float(i), usize_as_Float(n))

\* u_max with the `+ 1` of line 125 left out
u_max_of_NoPlusOne(i, n) == FDiv(usize_as_Float(i), usize_as_Float(n))

\* u_max of segment i (line 125)
u_max_of(i, n) == FDiv(usize_as_Float(i + 1), usize_as_Float(n))

\* The vector `segments` is kept as its length and its elements at the
\* indices of Kept: the first 2^MaxSplitDepth, those around 2^MantBits
\* (where i as Float begins to round) and the last two.  For a split depth
\* up to MaxSplitDepth these are all its indices.
Kept(n) ==
    {i \in (0..(Pow2(MaxSplitDepth) - 1))
              \cup {Pow2(MantBits) + j : j \in -2..3}
              \cup {n - 2, n - 1} : i >= 0 /\ i < n}

\* the first kept index from `len` on
next_kept(len, n) == Min({i \in Kept(n) : i >= len})

\* Vec::with_capacity(n): the empty vector
Vec_with_capacity == [len |-> 0, at |-> <<>>]

\* the vector v after pushes up to index i, the last of them x
Vec_push(v, i, x) == [len |-> i + 1, at |-> v.at @@ (i :> x)]

\* the split depths create is called with: the shallow ones, the two
\* around the depth where the segment count passes 2^MantBits, and those
\* whose vector cannot be allocated at all
Depths ==
    {d \in 0..(UsizeBits - 1) : \/ d <= MaxSplitDepth
                                \/ d \in {MantBits, MantBits + 1}
                                \/ capacity_overflow(d)}

InitCreate ==
    /\ split_depth \in Depths
    /\ reverse_orientation \in BOOLEAN
    /\ curve_type \in CurveTypes
    /\ norm \in {"None", "Some"}
    /\ commons = <<>>
    /\ common = 0
    /\ n_segments = 0
    /\ segments = Vec_with_capacity
    /\ crpc = "ready"

\* Curve::create, lines 120-122: the shared CurveCommon, n_segments and the
\* empty vector.  When with_capacity panics the frame is unwound and
\* n_segments is not kept.
create_begin ==
    /\ crpc = "ready"
    /\ commons' = Append(commons, CurveCommon_new(curve_type, norm))
    /\ common' = Len(commons')
    /\ IF capacity_overflow(split_depth)
       THEN /\ crpc' = "panicked"
            /\ UNCHANGED n_segments
       ELSE /\ crpc' = "loop"
            /\ n_segments' = n_segments_of(split_depth)
    /\ segments' = Vec_with_capacity
    /\ UNCHANGED <<split_depth, reverse_orientation, curve_type, norm>>
    /\ UNCHANGED <<visVars, samplerVars, lightVars, curveVars, uberVars>>

\* the iterations of `for i in 0..n_segments` (lines 123-138) from the
\* current length of the vector through index i; the segment of i is kept
create_push_through(i) ==
    segments' = Vec_push(segments, i,
                         Curve_new("o2w", "w2o", reverse_orientation, common,
                                   u_min_of(i, n_segments),
                                   u_max_of(i, n_segments)))

\* Curve::create, the loop up to and including the next kept index
create_push ==
    /\ crpc = "loop"
    /\ segments.len < n_segments
    /\ create_push_through(next_kept(segments.len, n_segments))
    /\ UNCHANGED <<split_depth, reverse_orientation, curve_type, norm,
                   commons, common, n_segments, crpc>>
    /\ UNCHANGED <<visVars, samplerVars, lightVars, curveVars, uberVars>>

\* handle_alloc_error: the allocation of line 122 or an Arc::new of line
\* 128 fails and the process is aborted
create_abort ==
    /\ crpc = "loop"
    /\ segments.len < n_segments
    /\ alloc_may_fail(split_depth)
    /\ crpc' = "aborted"
    /\ UNCHANGED <<split_depth, reverse_orientation, curve_type, norm,
                   commons, common, n_segments, segments>>
    /\ UNCHANGED <<visVars, samplerVars, lightVars, curveVars, uberVars>>

\* Curve::create, the end of the loop and line 140: segments is returned
create_return ==
    /\ crpc = "loop"
    /\ segments.len = n_segments
    /\ crpc' = "done"
    /\ UNCHANGED <<split_depth, reverse_orientation, curve_type, norm,
                   commons, common, n_segments, segments>>
    /\ UNCHANGED <<visVars, samplerVars, lightVars, curveVars, uberVars>>

(***************************************************************************)
(* materials/uber.rs: UberMaterial::bsdf.  A Spectrum is kept as two       *)
(* channels of finite values; a channel is an integer numerator over the   *)
(* denominator den, so that products are exact.                            *)
(***************************************************************************)
\* Spectrum::new(v): every channel is v (v counted in 1/Unit)
spectrum_new(v) == [c |-> <<v, v>>, den |-> Unit]

\* Spectrum::clamp(0.0, INFINITY)
spectrum_clamp(sp) ==
    [sp EXCEPT !.c = [i \in 1..2 |-> IF sp.c[i] < 0 THEN 0 ELSE sp.c[i]]]

\* Spectrum - Spectrum (both over the same denominator)
spectrum_sub(a, b) == [a EXCEPT !.c = [i \in 1..2 |-> a.c[i] - b.c[i]]]

\* Spectrum * Spectrum, channel by channel
spectrum_mul(a, b) ==
    [c |-> [i \in 1..2 |-> a.c[i] * b.c[i]], den |-> a.den * b.den]

\* Spectrum::is_black: every channel is 0.0
is_black(sp) == \A i \in 1..2 : sp.c[i] = 0

\* the channel values of the kd, ks, kr and kt textures: a negative value,
\* zero and a positive value
KChannel == {-1, 0, 1}
OpacityChannel == -1..MaxOpacity

SpectraOver(S) == {[c |-> <<a, b>>, den |-> Unit] : a \in S, b \in S}

\* the values of the eta texture: 1.0 and a larger index of refraction
EtaValues == {Unit, Unit + 1}

\* op * k.clamp(0, INFINITY) without the factor op
scaled_NoOpacity(op, k) == spectrum_clamp(k)

\* op * self.k.evaluate(si).clamp(0.0, INFINITY) (lines 123-126, 130-133,
\* 159-162, 170-173)
scaled(op, k) == spectrum_mul(op, spectrum_clamp(k))

\* bxdfs.push(lobe) under `if !weight.is_black()`
push_unless_black(bxdfs, weight, lobe) ==
    IF ~is_black(weight) THEN Append(bxdfs, lobe) ELSE bxdfs

\* UberMaterial::bsdf (lines 107-187)
bsdf(m) ==
    LET e == m.eta
        op == spectrum_clamp(m.opacity)
        t == spectrum_clamp(spectrum_sub(spectrum_new(Unit), op))
        kd == scaled(op, m.kd)
        ks == scaled(op, m.ks)
        kr == scaled(op, m.kr)
        kt == scaled(op, m.kt)
        b1 == push_unless_black(<<>>, t,
                 [bxdf |-> "SpecularTransmission", w |-> t,
                  eta_a |-> Unit, eta_b |-> Unit])
        b2 == push_unless_black(b1, kd,
                 [bxdf |-> "LambertianReflection", w |-> kd,
                  eta_a |-> 0, eta_b |-> 0])
        b3 == push_unless_black(b2, ks,
                 [bxdf |-> "MicrofacetReflection", w |-> ks,
                  eta_a |-> Unit, eta_b |-> e])
        b4 == push_unless_black(b3, kr,
                 [bxdf |-> "SpecularReflection", w |-> kr,
                  eta_a |-> Unit, eta_b |-> e])
        b5 == push_unless_black(b4, kt,
                 [bxdf |-> "SpecularTransmission", w |-> kt,
                  eta_a |-> Unit, eta_b |-> e])
    IN IF ~is_black(t)
       THEN [eta |-> Unit, bxdfs |-> b5]
       ELSE [eta |-> e, bxdfs |-> b5]

NoBsdf == [eta |-> 0, bxdfs |-> <<>>]

InitUber ==
    /\ uber \in [kd : SpectraOver(KChannel), ks : SpectraOver(KChannel),
                 kr : SpectraOver(KChannel), kt : SpectraOver(KChannel),
                 eta : EtaValues, opacity : SpectraOver(OpacityChannel)]
    /\ bsdfOut = NoBsdf
    /\ ubpc = "ready"

\* a call of bsdf(si, mode) on the material
call_bsdf ==
    /\ ubpc = "ready"
    /\ bsdfOut' = bsdf(uber)
    /\ ubpc' = "returned"
    /\ UNCHANGED uber
    /\ UNCHANGED <<visVars, samplerVars, lightVars, curveVars, createVars>>

(***************************************************************************)
(* Specifications.  Each one runs one component; the variables of the      *)
(* others stay at a fixed value.                                           *)
(***************************************************************************)
IdleVis ==
    /\ scene = [q \in Pos |-> "empty"]
    /\ p0 = DefaultAt(0)
    /\ p1 = DefaultAt(0)
    /\ ray = NoRay
    /\ pc = "idle"
    /\ trResult = -1
    /\ unoccResult = FALSE
    /\ calls = 0
    /\ trReturns = <<>>
    /\ unoccReturns = <<>>
    /\ lastIsect = NoIsect
    /\ passed = 0
    /\ iters = 0

IdleSampler ==
    /\ samples_per_pixel = 1
    /\ current_sample_number = 0
    /\ current_pixel = <<0, 0>>
    /\ nextCalls = 0
    /\ trueCount = 0
    /\ lastRet = TRUE

IdleLight ==
    /\ flags = 0
    /\ deltaOut = "none"

IdleCurve ==
    /\ irefP = Vec3Zero
    /\ pdfIn = Fin(0)
    /\ cpc = "ready"
    /\ pdfOut = Fin(0)
    /\ intrOut = [p |-> Vec3Zero, n |-> Vec3Zero]
    /\ computedPdf = "none"
    /\ didNormalize = FALSE
    /\ didDivide = FALSE

IdleCreate ==
    /\ split_depth = 0
    /\ reverse_orientation = FALSE
    /\ curve_type = "Flat"
    /\ norm = "None"
    /\ commons = <<>>
    /\ common = 0
    /\ n_segments = 0
    /\ segments = Vec_with_capacity
    /\ crpc = "ready"

IdleUber ==
    /\ uber = [kd |-> spectrum_new(0), ks |-> spectrum_new(0),
               kr |-> spectrum_new(0), kt |-> spectrum_new(0),
               eta |-> Unit, opacity |-> spectrum_new(Unit)]
    /\ bsdfOut = NoBsdf
    /\ ubpc = "ready"

\* The visibility tester, resolved against a scene.
Init == InitVis /\ IdleSampler /\ IdleLight /\ IdleCurve /\ IdleCreate
          /\ IdleUber
Next == call_unoccluded \/ tr_begin \/ tr_iterate
Spec == Init /\ [][Next]_vars

\* The sampler, driven pixel by pixel.
InitS == IdleVis /\ InitSampler /\ IdleLight /\ IdleCurve /\ IdleCreate
          /\ IdleUber
NextS == (\E x \in 0..MaxPixel, y \in 0..MaxPixel : start_pixel(<<x, y>>))
            \/ start_next_sample
SpecSampler == InitS /\ [][NextS]_vars

\* is_delta_light on every flags byte.
InitL == IdleVis /\ IdleSampler /\ InitLight /\ IdleCurve /\ IdleCreate
          /\ IdleUber
NextL == call_is_delta_light
SpecLight == InitL /\ [][NextL]_vars

\* sample_with_ref_point on every reference point and incoming *pdf.
InitC == IdleVis /\ IdleSampler /\ IdleLight /\ InitCurve /\ IdleCreate
          /\ IdleUber
NextC == call_sample_with_ref_point
SpecCurve == InitC /\ [][NextC]_vars

\* Curve::create on every split depth and argument case.
InitK == IdleVis /\ IdleSampler /\ IdleLight /\ IdleCurve /\ InitCreate
          /\ IdleUber
NextK == create_begin \/ create_push \/ create_abort \/ create_return
SpecCreate == InitK /\ [][NextK]_vars

\* UberMaterial::bsdf on every material of the value ranges.
InitU == IdleVis /\ IdleSampler /\ IdleLight /\ IdleCurve /\ IdleCreate
          /\ InitUber
NextU == call_bsdf
SpecUber == InitU /\ [][NextU]_vars

(***************************************************************************)
(* Properties                                                              *)
(***************************************************************************)
\* the positions strictly between two positions
StrictlyBetween(a, b) == {q \in Pos : (a < q /\ q < b) \/ (b < q /\ q < a)}

\* the number of surfaces of a scene
NumSurfaces(sc) == Cardinality({q \in Pos : sc[q] # "empty"})

\* C1: tr terminates within a hard iteration cap bounded by the scene's
\* primitive count: no call of tr runs more loop iterations than the scene
\* has surfaces, plus the one that finds nothing.
C1_TrWithinIterationCap == iters <= NumSurfaces(scene) + 1

\* C2: when the ray tr casts hits a primitive that has a material, that
\* iteration returns the zero Spectrum and tr casts no further ray, however
\* many material-less surfaces were passed before.
C2_OpaqueHitReturnsZero ==
    [][(/\ pc = "loop"
        /\ HitSteps(scene, ray) # {}
        /\ scene[RayAt(ray, Min(HitSteps(scene, ray)))] = "opaque")
       => (/\ pc' = "idle"
           /\ trResult' = 0
           /\ trReturns' = Append(trReturns, 0)
           /\ passed' = passed)]_vars

\* C2 witness: tr returned zero at an opaque hit after passing through
\* at least one material-less surface.
C2_Witness ==
    /\ pc = "idle"
    /\ trReturns # <<>>
    /\ trResult = 0
    /\ passed >= 1
    /\ lastIsect.primitive = "SomeWithMaterial"

\* C3: whenever no material-bearing primitive lies between p0 and p1, every
\* value tr returns is the unit Spectrum 1.0, whether the first ray found
\* nothing or any number of material-less primitives were passed.
C3_ClearPathReturnsUnit ==
    (\A q \in StrictlyBetween(p0.p, p1.p) : scene[q] # "opaque")
        => \A i \in 1..Len(trReturns) : trReturns[i] = 1

\* C3 witness: tr returned 1.0 after passing two material-less primitives.
C3_Witness ==
    /\ pc = "idle"
    /\ trReturns # <<>>
    /\ trResult = 1
    /\ passed >= 2
    /\ \A q \in StrictlyBetween(p0.p, p1.p) : scene[q] # "opaque"

\* C4: unoccluded returns true exactly when the scene has no surface
\* strictly between p0 and p1 (intersect_p reports nothing for the ray from
\* p0 toward p1); an opaque primitive in between makes it false.
C4_UnoccludedIffNoIntersection ==
    \A i \in 1..Len(unoccReturns) :
        /\ unoccReturns[i]
              <=> (\A q \in StrictlyBetween(p0.p, p1.p) : scene[q] = "empty")
        /\ unoccReturns[i]
              <=> ~intersect_p(scene, spawn_ray_to(p0, p1))

\* C4 witness: unoccluded returned false with an opaque primitive strictly
\* between p0 and p1.
C4_Witness ==
    /\ unoccReturns # <<>>
    /\ ~unoccResult
    /\ \E q \in StrictlyBetween(p0.p, p1.p) : scene[q] = "opaque"

\* C5: for every flags byte, is_delta_light is true exactly when bit 0
\* (DeltaPosition) or bit 1 (DeltaDirection) is set; it is false for 0 and
\* for flags made of Area and Infinite only.
C5_IsDeltaIffDeltaBit ==
    deltaOut # "none" =>
        /\ (deltaOut = "true")
              <=> (flags % 2 = 1 \/ (flags \div 2) % 2 = 1)
        /\ flags \in {0, Area, Infinite, Area + Infinite} => deltaOut = "false"

\* C5 witness: a light with a delta bit and other bits answered true.
C5_Witness ==
    /\ deltaOut = "true"
    /\ flags = DeltaDirection + Infinite

\* C6: unoccluded and tr change neither the tester's p0 and p1, nor the
\* scene, nor the sampler; and every resolution of the same tester against
\* the same scene returns what the first one returned.
C6_TesterImmutable ==
    /\ [][/\ p0' = p0
          /\ p1' = p1
          /\ scene' = scene
          /\ samplerVars' = samplerVars]_vars
    /\ [](/\ \A i \in 1..Len(trReturns) : trReturns[i] = trReturns[1]
          /\ \A i \in 1..Len(unoccReturns) : unoccReturns[i] = unoccReturns[1])

\* C6 witness: the tester was resolved twice by tr, the last time passing
\* through a material-less primitive.
C6_Witness ==
    /\ Len(trReturns) = 2
    /\ passed >= 1
    /\ pc = "idle"

\* C7: after start_pixel, exactly samples_per_pixel successive calls of
\* start_next_sample return true and the next one returns false, at every
\* pixel.
C7_ExactlyNTrue ==
    /\ lastRet => (trueCount = nextCalls /\ nextCalls <= samples_per_pixel)
    /\ ~lastRet => (/\ trueCount = samples_per_pixel
                    /\ nextCalls = samples_per_pixel + 1)

\* C7 witness: at a pixel other than the first, with at least two samples
\* per pixel, the call after the last true one returned false.
C7_Witness ==
    /\ current_pixel # <<0, 0>>
    /\ samples_per_pixel >= 2
    /\ ~lastRet
    /\ trueCount = samples_per_pixel

\* C8: whenever the solid-angle pdf computed at line 214 is infinite or
\* NaN, the pdf handed back to the caller is 0.
C8_NonFinitePdfIsZero ==
    (cpc = "returned" /\ computedPdf \in {"inf", "nan"}) => IsZero(pdfOut)

\* C9: when the direction intr.p - iref.p has zero squared length (the
\* sampled point coincides with the reference point), the pdf handed back
\* is 0 and neither the normalisation nor the division is performed,
\* whatever *pdf was after the sample call.
C9_CoincidentPointGivesZero ==
    (cpc = "returned"
        /\ IsZero(length_squared(Pnt3Sub(intrOut.p, irefP))))
        => (IsZero(pdfOut) /\ ~didNormalize /\ ~didDivide)

\* C9 witness: the reference point is the sampled point and *pdf came in
\* as NaN; the call returned 0.
C9_Witness ==
    /\ cpc = "returned"
    /\ intrOut.p = irefP
    /\ is_nan(pdfIn)
    /\ IsZero(pdfOut)

\* C10: after every loop iteration of tr that found a hit and did not
\* return, the current ray is a new ray spawned from the interaction built
\* from that hit toward p1.
C10_HitAlwaysRespawns ==
    (pc = "loop" /\ lastIsect.hit)
        => ray = spawn_ray_to(ItOfIsect(lastIsect), p1)

\* the f32 value a is exactly i / 2^d (0 <= i <= 2^d)
IsRatio(a, i, d) ==
    /\ a.k = "fin"
    /\ a.s = 0
    /\ a.e + d >= 0
    /\ a.m * Pow2(a.e + d) = i

\* the returned vector has 2^split_depth segments; segment i has
\* u_min = i/n and u_max = (i+1)/n, the first starts at 0, the last ends at
\* 1, neighbours abut; all share the one CurveCommon and have no material
SegmentsPartition ==
    /\ segments.len = Pow2(split_depth)
    /\ \A i \in DOMAIN segments.at :
          /\ IsRatio(segments.at[i].u_min, i, split_depth)
          /\ IsRatio(segments.at[i].u_max, i + 1, split_depth)
          /\ segments.at[i].common = common
          /\ segments.at[i].material = "None"
          /\ (i + 1) \in DOMAIN segments.at
                => segments.at[i].u_max = segments.at[i + 1].u_min
    /\ segments.at[0].u_min = Fin(0)
    /\ segments.at[segments.len - 1].u_max = Fin(1)
    /\ Len(commons) = 1
    /\ common = 1

\* C11 as stated: for every split_depth of the shift range, Curve::create
\* returns exactly 2^split_depth segments; segment i has u_min = i/n and
\* u_max = (i+1)/n with n = 2^split_depth, so the first starts at 0, the
\* last ends at 1 and consecutive segments abut; all segments share the one
\* CurveCommon and have no material.
C11_SegmentsPartitionUnitRange ==
    crpc = "done" => SegmentsPartition

\* C11 amended: the same, for every split_depth up to MantBits, where
\* every index i <= n = 2^split_depth is an f32 value and i as Float is i.
C11_SegmentsPartitionUpToMantBits ==
    (crpc = "done" /\ split_depth <= MantBits) => SegmentsPartition

\* C11 witness: create returned 2^MantBits segments; the last one starts
\* one step below 1 and ends at 1.
C11_Witness ==
    /\ crpc = "done"
    /\ split_depth = MantBits
    /\ segments.len = Pow2(MantBits)
    /\ segments.at[segments.len - 1].u_min
           = FDiv(Fin(Pow2(MantBits) - 1), Fin(Pow2(MantBits)))
    /\ segments.at[segments.len - 1].u_max = Fin(1)

\* the weight of a lobe of the list, by channel: clamp(1 - opacity) for the
\* pass-through lobe, opacity times the clamped texture for the others
\* (in 1/Unit for the first, 1/Unit^2 for the others)
Clamp0(x) == IF x < 0 THEN 0 ELSE x
PassThroughWeight(m) ==
    [i \in 1..2 |-> Clamp0(Unit - Clamp0(m.opacity.c[i]))]
LobeWeight(m, k) ==
    [i \in 1..2 |-> Clamp0(m.opacity.c[i]) * Clamp0(k.c[i])]
NonBlack(w) == \E i \in 1..2 : w[i] # 0

\* the lobes the claim expects, in its fixed order
ExpectedLobes(m) ==
    LET all == << <<"SpecularTransmission", NonBlack(PassThroughWeight(m))>>,
                  <<"LambertianReflection", NonBlack(LobeWeight(m, m.kd))>>,
                  <<"MicrofacetReflection", NonBlack(LobeWeight(m, m.ks))>>,
                  <<"SpecularReflection", NonBlack(LobeWeight(m, m.kr))>>,
                  <<"SpecularTransmission", NonBlack(LobeWeight(m, m.kt))>> >>
        present(x) == x[2]
    IN SelectSeq(all, present)

\* C12: bsdf lists its lobes in the order pass-through transmission,
\* Lambertian, microfacet reflection, specular reflection, specular
\* transmission, each present exactly when its weight is non-black, at most
\* five in all; the Bsdf's eta is 1.0 when the pass-through lobe is present
\* and the material's eta otherwise; with opacity zero the pass-through
\* lobe is the only one.  Texture values are finite.
C12_LobeListAndEta ==
    ubpc = "returned" =>
        LET exp == ExpectedLobes(uber)
            pt == PassThroughWeight(uber)
        IN /\ Len(bsdfOut.bxdfs) <= 5
           /\ Len(bsdfOut.bxdfs) = Len(exp)
           /\ \A j \in 1..Len(exp) : bsdfOut.bxdfs[j].bxdf = exp[j][1]
           /\ NonBlack(pt) => (/\ bsdfOut.eta = Unit
                               /\ bsdfOut.bxdfs[1].eta_b = Unit
                               /\ \A j \in 2..Len(exp) :
                                     bsdfOut.bxdfs[j].eta_b \in {0, uber.eta})
           /\ ~NonBlack(pt) => bsdfOut.eta = uber.eta
           /\ (\A i \in 1..2 : uber.opacity.c[i] = 0) =>
                 (/\ Len(bsdfOut.bxdfs) = 1
                  /\ bsdfOut.bxdfs[1].bxdf = "SpecularTransmission"
                  /\ bsdfOut.bxdfs[1].eta_b = Unit)

\* C12 witness: a partly transparent material with every texture positive
\* gives all five lobes and eta 1.0.
C12_Witness ==
    /\ ubpc = "returned"
    /\ Len(bsdfOut.bxdfs) = 5
    /\ bsdfOut.eta = Unit
    /\ uber.eta # Unit
    /\ uber.opacity = spectrum_new(1)

====
